---- MODULE Spec2Model ----
(***************************************************************************)
(* GRAAFIN: the scrape-job retry queue, the endpoint monitor and the       *)
(* headless browser manager, as state machines.                            *)
(*                                                                         *)
(* Time is counted in minutes.  A timestamp that is null is Null.          *)
(***************************************************************************)
EXTENDS Integers, Sequences, FiniteSets, TLC

\* ------------------------------------------------------------------ bounds
NumJobs == 1
NumDrainers == 2
\* processRetryQueue is invoked at most MaxPasses times.
MaxPasses == 3
NumProbers == 2
\* At most MaxProbes probes are begun, and the monitors' clock stops at MaxClock.
MaxProbes == 3
MaxClock == 2
NumCallers == 4
NumResults == 2
NumAthletes == 2
NumMatchers == 2
MaxNameLen == 3
\* At most MaxMatchRuns runs of autoMatchResults are begun.
MaxMatchRuns == 2

Jobs == 1..NumJobs
Drainers == 1..NumDrainers
Probers == 1..NumProbers
Callers == 1..NumCallers
ResultIds == 1..NumResults
Athletes == 1..NumAthletes
Matchers == 1..NumMatchers
Signals == {"SIGINT", "SIGTERM"}

Null == 0 - 1

\* --------------------------------------------------------- retry queue data
\* RETRY_INTERVALS_MS, in minutes (5 * 60 * 1000 ms = 5 minutes).
RETRY_INTERVALS_MS == <<5, 15, 45>>

\* scrape_jobs.max_retries DEFAULT 3
MAX_RETRIES == 3

\* saveResults: const batchSize = 500
BatchSize == 500

\* notifyScrapeJobFailed: error.length > 100 ? error.slice(0, 100) + '...'
NotifyErrorLimit == 100

\* Event URLs.  A URL is the organiser's host, the event it names and whether
\* it carries a distance= (or page=) query parameter.
UrlEvoChip == [org |-> "evochip", ev |-> 1, dist |-> TRUE]
UrlHopa == [org |-> "hopasports", ev |-> 2, dist |-> FALSE]
UrlOther == [org |-> "other", ev |-> 3, dist |-> FALSE]

\* Lengths of the error messages a scrape or a persistence call may throw.
ErrLens == {40, 150}

\* Numbers of rows a scrape may return.
ScrapeCounts == {0, 501}

VARIABLES
    now,        \* wall clock, minutes
    jobs,       \* scrape_jobs rows, by job id
    events,     \* events rows: events[id] is the row's event_url
    results,    \* results[id]: number of race_results rows of event id
    notifs,     \* notifs[j]: notification callouts made for job j, by kind
    hist,       \* hist[j]: the finished ingestion attempts of job j, in order
    started,    \* started[j]: number of ingestion attempts begun for job j
    passes,     \* number of processRetryQueue runs begun
    pc,         \* pc[d]: where drainer run d stands
    queue,      \* queue[d]: jobsToRetry not yet processed (snapshots)
    cur,        \* cur[d]: the job snapshot processRetryJob works on
    loc,        \* loc[d]: processRetryJob's locals
    lastNotify, \* lastNotify[d]: what happened to the notifier call of the attempt
                \* drainer d has just ended ("none" once the drainer has moved on)
    clock,            \* wall clock of the monitors
    endpointCurrent,  \* the endpoint_status_current row of the endpoint
    endpointHistory,  \* endpoint_status_history: the status of each row, in order
    stateFile,        \* monitor.ts: the contents of the state file
    probes,           \* number of probes begun
    mpc,              \* mpc[p]: where probe p stands
    mloc,             \* mloc[p]: the locals of probe p
    ret,              \* ret[p]: the MonitorResult probe p returned last
    lastWrite,        \* the last upsert of endpointCurrent: row before, row after, time
    browser,          \* BrowserManager.browser: "none" (null) or "open"
    context,          \* BrowserManager.context: "none" (null) or "open"
    pageCount,        \* BrowserManager.pageCount
    isInitializing,   \* BrowserManager.isInitializing
    initPromise,      \* BrowserManager.initPromise: "none", "pending", "resolved", "rejected"
    openPages,        \* number of pages open in the browser
    bpc,              \* bpc[c]: where scrape c stands in getPage .. closePage
    spc,              \* spc[h]: where the handler of signal h stands in shutdown
    athleteId,        \* race_results.athlete_id, by result id (0: null)
    matchRuns,        \* number of autoMatchResults runs begun
    apc,              \* apc[m]: where autoMatchResults run m stands
    aloc,             \* aloc[m]: the locals of run m
    adec,             \* adec[m]: the last result run m decided on, and how
    probeIn,          \* checkSiteStatus: what the last probe met on the network
    probeOut,         \* checkSiteStatus: the SiteStatus the last probe returned
    scrapeIn,         \* scrapeDistanceWithPlaywright: what the last call met
    scrapeOut,        \* scrapeDistanceWithPlaywright: what the last call returned
    eventOut,         \* scrapeEvent: how the last call ended, its payload and progress
    nameIn,           \* normalizeName: the last argument, a sequence of characters
    nameOut           \* normalizeName: what it returned for nameIn

retryVars == <<now, jobs, events, results, notifs, hist, started, passes, pc, queue, cur, loc,
               lastNotify>>

monitorVars == <<clock, endpointCurrent, endpointHistory, stateFile, probes, mpc, mloc,
                 ret, lastWrite>>

browserVars == <<browser, context, pageCount, isInitializing, initPromise, openPages,
                 bpc, spc>>

matcherVars == <<athleteId, matchRuns, apc, aloc, adec>>

callVars == <<probeIn, probeOut, scrapeIn, scrapeOut, eventOut, nameIn, nameOut>>

otherThanRetry == <<monitorVars, browserVars, matcherVars, callVars>>
otherThanMonitor == <<retryVars, browserVars, matcherVars, callVars>>
otherThanBrowser == <<retryVars, monitorVars, matcherVars, callVars>>
otherThanMatcher == <<retryVars, monitorVars, browserVars, callVars>>
otherThanCalls == <<retryVars, monitorVars, browserVars, matcherVars>>

vars == <<retryVars, monitorVars, browserVars, matcherVars, callVars>>

\* ------------------------------------------------------------ scraper index
canHandle(scraper, url) == url.org = scraper

getScraperForUrl(url) ==
    IF canHandle("hopasports", url) THEN "hopasports"
    ELSE IF canHandle("evochip", url) THEN "evochip"
    ELSE "none"

getScraperByOrganiser(organiser) ==
    IF organiser \in {"hopasports", "evochip"} THEN organiser ELSE "none"

\* processRetryJob's choice of scraper: the organiser hint, then the URL.
SelectScraper(organiser, url) ==
    LET hinted == IF organiser # "unknown" THEN getScraperByOrganiser(organiser)
                  ELSE "none"
    IN  IF hinted # "none" THEN hinted ELSE getScraperForUrl(url)

\* The event.eventUrl a scraper returns for url.  EvoChip deletes the
\* distance and page parameters (baseUrl); Hopasports returns url itself.
ScrapedEventUrl(scraper, url) ==
    IF scraper = "evochip" THEN [url EXCEPT !.dist = FALSE] ELSE url

\* EvoChip's scrapeEvent catches every per-distance error and returns what it
\* has; Hopasports' scrapeEvent lets fetchPage's error out.
ScrapeMayThrow(scraper) == scraper = "hopasports"

\* ------------------------------------------------------------- persistence
EventIdsByUrl(url) == {i \in 1..Len(events) : events[i] = url}

\* getEventByUrl: .eq('event_url', url).single(); no row, or more than one
\* row, is PGRST116, which the function returns as null (0 here).
getEventByUrl(url) ==
    LET ids == EventIdsByUrl(url)
    IN  IF Cardinality(ids) = 1 THEN CHOOSE i \in ids : TRUE ELSE 0

\* saveEvent: a plain insert; the new row's id.
saveEventRows(url) == Append(events, url)

NumBatches(n) == (n + BatchSize - 1) \div BatchSize

\* saveResults: the rows inserted when batch failAt (1-based) fails; 0 = none fails.
RowsInserted(n, failAt) == IF failAt = 0 THEN n ELSE (failAt - 1) * BatchSize

\* updateScrapeJob(jobId, {status, resultsCount, errorMessage}).  The row's
\* completed_at, which nothing reads, is left out.
JobCompleted(row, resultsCount) ==
    [row EXCEPT !.status = "completed", !.results_count = resultsCount]

JobFailed(row, errorLen) ==
    [row EXCEPT !.status = "failed", !.error_len = errorLen]

\* resetJobForRetry(jobId): a conditional update on status and next_retry_at
\* that sets the row running and clears next_retry_at.
resetJobForRetry(row) ==
    IF row.status = "failed" /\ row.next_retry_at # Null
    THEN [row EXCEPT !.status = "running", !.next_retry_at = Null]
    ELSE row

\* scheduleJobRetry(jobId, nextRetryAt, nextRetryCount)
scheduleJobRetry(row, nextRetryAt, nextRetryCount) ==
    [row EXCEPT !.status = "failed", !.next_retry_at = nextRetryAt,
                !.retry_count = nextRetryCount]

\* getJobsForRetry: status = failed AND next_retry_at <= now, next_retry_at ascending.
DueJobs == {j \in Jobs : /\ jobs[j].status = "failed"
                         /\ jobs[j].next_retry_at # Null
                         /\ jobs[j].next_retry_at <= now}

Earliest(S) ==
    CHOOSE j \in S : \A k \in S :
        \/ jobs[j].next_retry_at < jobs[k].next_retry_at
        \/ jobs[j].next_retry_at = jobs[k].next_retry_at /\ j <= k

RECURSIVE SortByNextRetry(_)
SortByNextRetry(S) ==
    IF S = {} THEN <<>>
    ELSE LET j == Earliest(S)
         IN  <<[id |-> j, retry_count |-> jobs[j].retry_count]>>
                 \o SortByNextRetry(S \ {j})

getJobsForRetry == SortByNextRetry(DueJobs)

\* ------------------------------------------------------------ scheduleRetry
\* A scheduleRetry that indexes the schedule by the next retry count.
IntervalByNextCount(currentRetryCount) ==
    IF currentRetryCount + 2 <= Len(RETRY_INTERVALS_MS)
    THEN RETRY_INTERVALS_MS[currentRetryCount + 2]
    ELSE RETRY_INTERVALS_MS[Len(RETRY_INTERVALS_MS)]

\* const intervalMs = RETRY_INTERVALS_MS[currentRetryCount] || last
IntervalFor(currentRetryCount) ==
    IF currentRetryCount + 1 <= Len(RETRY_INTERVALS_MS)
    THEN RETRY_INTERVALS_MS[currentRetryCount + 1]
    ELSE RETRY_INTERVALS_MS[Len(RETRY_INTERVALS_MS)]

\* scheduleRetry(jobId, currentRetryCount): the row after the call.
scheduleRetry(row, currentRetryCount) ==
    LET nextRetryCount == currentRetryCount + 1
    IN  IF nextRetryCount > Len(RETRY_INTERVALS_MS) THEN row
        ELSE scheduleJobRetry(row, now + IntervalFor(currentRetryCount), nextRetryCount)

\* const willRetry = currentRetryCount < RETRY_INTERVALS_MS.length - 1
WillRetry(currentRetryCount) == currentRetryCount < Len(RETRY_INTERVALS_MS) - 1

\* ---------------------------------------------------------------- notifier
\* What may happen to a notification: it is delivered, the notifier is not
\* configured, or the transport (Twilio) raises an error.
NotifyEnvs == {"sent", "unconfigured", "transportError"}

\* A sender that lets the transport's error out.
sendWhatsAppMessageRethrow(env) ==
    IF env = "sent" THEN "true" ELSE IF env = "unconfigured" THEN "false" ELSE "throw"

\* sendWhatsAppMessage: false when not configured; true when the message is
\* created; the transport's error is caught and false is returned.
sendWhatsAppMessage(env) ==
    IF env = "sent" THEN "true" ELSE "false"

\* notifyScrapeJob*: false when isNotificationConfigured() is false, else
\* what sendNotification, i.e. sendWhatsAppMessage, returns.
notifyScrapeJob(env) ==
    IF env = "unconfigured" THEN "false" ELSE sendWhatsAppMessage(env)

\* -------------------------------------------------------------------- Init
NoJob == [id |-> 0, retry_count |-> 0]
NoLoc == [scraper |-> "none", existing |-> 0, eventId |-> 0, n |-> 0, err |-> 0,
          off |-> 0]

NewJob(url, organiser) ==
    [status |-> "pending", retry_count |-> 0, next_retry_at |-> Null,
     error_len |-> Null, results_count |-> 0,
     event_url |-> url, organiser |-> organiser]

\* A scrape_jobs row that is not inserted yet.
NoJobRow == [status |-> "none", retry_count |-> 0, next_retry_at |-> Null,
             error_len |-> Null, results_count |-> 0,
             event_url |-> UrlOther, organiser |-> "unknown"]

\* createScrapeJob: the jobs an administrator may submit.  The organiser is
\* 'unknown' or the name of the URL's host.
NewJobs == {NewJob(UrlEvoChip, "unknown"), NewJob(UrlHopa, "hopasports"),
            NewJob(UrlOther, "other")}

RetryInit ==
    /\ now = 0
    /\ jobs = [j \in Jobs |-> NoJobRow]
    /\ events = <<>>
    /\ results = <<>>
    /\ notifs = [j \in Jobs |-> [failed |-> 0, retryOk |-> 0, perm |-> 0, complete |-> 0]]
    /\ hist = [j \in Jobs |-> <<>>]
    /\ started = [j \in Jobs |-> 0]
    /\ passes = 0
    /\ pc = [d \in Drainers |-> "idle"]
    /\ queue = [d \in Drainers |-> <<>>]
    /\ cur = [d \in Drainers |-> NoJob]
    /\ loc = [d \in Drainers |-> NoLoc]
    /\ lastNotify = [d \in Drainers |-> "none"]

\* ------------------------------------------------------- the first attempt
Min(a, b) == IF a <= b THEN a ELSE b

\* A finished attempt: whether it succeeded, the retry_count it ran with, and
\* how many minutes after the failure the retry was scheduled (0: none was),
\* and the kind of notification the attempt called for.
Attempt(ok, rc, off, note) == [ok |-> ok, rc |-> rc, off |-> off, note |-> note]

Bump(n, j, kind) == [n EXCEPT ![j][kind] = @ + 1]

\* createScrapeJob({organiser, eventUrl}): inserts the row, status 'pending'.
createScrapeJob(j) ==
    /\ jobs[j].status = "none"
    /\ \E row \in NewJobs : jobs' = [jobs EXCEPT ![j] = row]
    /\ UNCHANGED <<now, events, results, notifs, hist, started, passes, pc, queue, cur, loc, lastNotify>>
    /\ UNCHANGED otherThanRetry

\* The ingestion coordinator's run of a pending job (spec 4.6 and 4.7): select
\* the scraper, reuse the Event of this URL or scrape and persist it, mark the
\* job completed; any exception marks the job failed with the error truncated
\* to 100 characters and hands it to the retry queue (scheduleRetry(id, 0)).
FirstIngest(j) ==
    /\ jobs[j].status = "pending"
    /\ LET url == jobs[j].event_url
           scraper == SelectScraper(jobs[j].organiser, url)
           existing == getEventByUrl(url)
           failed(e) ==
               /\ jobs' = [jobs EXCEPT ![j] =
                              scheduleRetry(JobFailed(@, Min(e, NotifyErrorLimit)), 0)]
               /\ notifs' = Bump(notifs, j, "failed")
               /\ hist' = [hist EXCEPT ![j] =
                              Append(@, Attempt(FALSE, 0, jobs'[j].next_retry_at - now, "failed"))]
           completed(n) ==
               /\ jobs' = [jobs EXCEPT ![j] = JobCompleted(@, n)]
               /\ notifs' = Bump(notifs, j, "complete")
               /\ hist' = [hist EXCEPT ![j] = Append(@, Attempt(TRUE, 0, 0, "complete"))]
       IN  \/ /\ scraper = "none" \/ (existing = 0 /\ ScrapeMayThrow(scraper))
              /\ \E e \in ErrLens : failed(e)
              /\ UNCHANGED <<events, results>>
           \/ /\ scraper # "none" /\ existing # 0
              /\ completed(0)
              /\ UNCHANGED <<events, results>>
           \/ /\ scraper # "none" /\ existing = 0
              /\ \E n \in ScrapeCounts : \E failAt \in 0..NumBatches(n) :
                    /\ events' = saveEventRows(ScrapedEventUrl(scraper, url))
                    /\ results' = Append(results, RowsInserted(n, failAt))
                    /\ IF failAt = 0 THEN completed(n)
                       ELSE \E e \in ErrLens : failed(e)
    /\ started' = [started EXCEPT ![j] = @ + 1]
    /\ UNCHANGED <<now, passes, pc, queue, cur, loc, lastNotify>>
    /\ UNCHANGED otherThanRetry

\* ---------------------------------------------------------- the retry drain
\* processRetryQueue: const jobsToRetry = await getJobsForRetry().  A run
\* takes the lowest free slot; a run that finds nothing due returns at once.
GetJobs(d) ==
    /\ pc[d] = "idle"
    /\ \A e \in Drainers : e < d => pc[e] # "idle"
    /\ passes < MaxPasses
    /\ passes' = passes + 1
    /\ DueJobs # {}
    /\ queue' = [queue EXCEPT ![d] = getJobsForRetry]
    /\ pc' = [pc EXCEPT ![d] = "loop"]
    /\ UNCHANGED <<now, jobs, events, results, notifs, hist, started, cur, loc, lastNotify>>
    /\ UNCHANGED otherThanRetry

\* for (const job of jobsToRetry): the next job, or the end of the run.
NextJob(d) ==
    /\ pc[d] = "loop"
    /\ IF queue[d] = <<>>
       THEN /\ pc' = [pc EXCEPT ![d] = "idle"]
            /\ UNCHANGED <<queue, cur, started>>
       ELSE /\ cur' = [cur EXCEPT ![d] = Head(queue[d])]
            /\ queue' = [queue EXCEPT ![d] = Tail(queue[d])]
            /\ started' = [started EXCEPT ![Head(queue[d]).id] = @ + 1]
            /\ pc' = [pc EXCEPT ![d] = "reset"]
    /\ lastNotify' = [lastNotify EXCEPT ![d] = "none"]
    /\ UNCHANGED <<now, jobs, events, results, notifs, hist, passes, loc>>
    /\ UNCHANGED otherThanRetry

Throw(d, e) ==
    /\ loc' = [loc EXCEPT ![d].err = e]
    /\ pc' = [pc EXCEPT ![d] = "catch"]

\* await resetJobForRetry(jobId); then the scraper is chosen.
Reset(d) ==
    /\ pc[d] = "reset"
    /\ LET j == cur[d].id
           scraper == SelectScraper(jobs[j].organiser, jobs[j].event_url)
       IN  /\ jobs' = [jobs EXCEPT ![j] = resetJobForRetry(@)]
           /\ IF scraper = "none"
              THEN \E e \in ErrLens : Throw(d, e)
              ELSE /\ loc' = [loc EXCEPT ![d].scraper = scraper]
                   /\ pc' = [pc EXCEPT ![d] = "getEvent"]
    /\ UNCHANGED <<now, events, results, notifs, hist, started, passes, queue, cur, lastNotify>>
    /\ UNCHANGED otherThanRetry

\* const existingEvent = await getEventByUrl(job.event_url)
GetEvent(d) ==
    /\ pc[d] = "getEvent"
    /\ LET existing == getEventByUrl(jobs[cur[d].id].event_url)
       IN  /\ loc' = [loc EXCEPT ![d].existing = existing, ![d].eventId = existing]
           /\ pc' = [pc EXCEPT ![d] = IF existing # 0 THEN "complete" ELSE "scrape"]
    /\ UNCHANGED <<now, jobs, events, results, notifs, hist, started, passes, queue, cur, lastNotify>>
    /\ UNCHANGED otherThanRetry

\* const scrapedData = await scraper.scrapeEvent(job.event_url)
Scrape(d) ==
    /\ pc[d] = "scrape"
    /\ \/ /\ ScrapeMayThrow(loc[d].scraper)
          /\ \E e \in ErrLens : Throw(d, e)
       \/ \E n \in ScrapeCounts :
             /\ loc' = [loc EXCEPT ![d].n = n]
             /\ pc' = [pc EXCEPT ![d] = "saveEvent"]
    /\ UNCHANGED <<now, jobs, events, results, notifs, hist, started, passes, queue, cur, lastNotify>>
    /\ UNCHANGED otherThanRetry

\* eventId = await saveEvent({... eventUrl: scrapedData.event.eventUrl ...})
SaveEvent(d) ==
    /\ pc[d] = "saveEvent"
    /\ \/ /\ \E e \in ErrLens : Throw(d, e)
          /\ UNCHANGED <<events, results>>
       \/ /\ events' = saveEventRows(
                 ScrapedEventUrl(loc[d].scraper, jobs[cur[d].id].event_url))
          /\ results' = Append(results, 0)
          /\ loc' = [loc EXCEPT ![d].eventId = Len(events) + 1]
          /\ pc' = [pc EXCEPT ![d] = IF loc[d].n > 0 THEN "saveResults" ELSE "count"]
    /\ UNCHANGED <<now, jobs, notifs, hist, started, passes, queue, cur, lastNotify>>
    /\ UNCHANGED otherThanRetry

\* await saveResults(eventId, scrapedData.results, distance)
SaveResults(d) ==
    /\ pc[d] = "saveResults"
    /\ \E failAt \in 0..NumBatches(loc[d].n) :
          /\ results' = [results EXCEPT ![loc[d].eventId] =
                            @ + RowsInserted(loc[d].n, failAt)]
          /\ IF failAt = 0
             THEN /\ pc' = [pc EXCEPT ![d] = "count"]
                  /\ UNCHANGED loc
             ELSE \E e \in ErrLens : Throw(d, e)
    /\ UNCHANGED <<now, jobs, events, notifs, hist, started, passes, queue, cur, lastNotify>>
    /\ UNCHANGED otherThanRetry

\* if (!existingEvent) resultsCount = (await scraper.scrapeEvent(url)).results.length
Count(d) ==
    /\ pc[d] = "count"
    /\ \/ /\ ScrapeMayThrow(loc[d].scraper)
          /\ \E e \in ErrLens : Throw(d, e)
       \/ \E n \in ScrapeCounts :
             /\ loc' = [loc EXCEPT ![d].n = n]
             /\ pc' = [pc EXCEPT ![d] = "complete"]
    /\ UNCHANGED <<now, jobs, events, results, notifs, hist, started, passes, queue, cur, lastNotify>>
    /\ UNCHANGED otherThanRetry

\* await updateScrapeJob(jobId, {status: 'completed', resultsCount})
Complete(d) ==
    /\ pc[d] = "complete"
    /\ jobs' = [jobs EXCEPT ![cur[d].id] =
                   JobCompleted(@, IF loc[d].existing # 0 THEN 0 ELSE loc[d].n)]
    /\ pc' = [pc EXCEPT ![d] = "notifyOk"]
    /\ UNCHANGED <<now, events, results, notifs, hist, started, passes, queue, cur, loc, lastNotify>>
    /\ UNCHANGED otherThanRetry

EndAttempt(d, a) ==
    /\ hist' = [hist EXCEPT ![cur[d].id] = Append(@, a)]
    /\ loc' = [loc EXCEPT ![d] = NoLoc]
    /\ cur' = [cur EXCEPT ![d] = NoJob]
    /\ pc' = [pc EXCEPT ![d] = "loop"]

\* The notifier call of drainer d; the value it returns is not used.
Notified(d, env) ==
    lastNotify' = [lastNotify EXCEPT ![d] = env]

\* An error leaving processRetryJob's catch block ends the run in
\* processRetryQueue's catch.
AbortRun(d) ==
    /\ pc' = [pc EXCEPT ![d] = "idle"]
    /\ queue' = [queue EXCEPT ![d] = <<>>]
    /\ cur' = [cur EXCEPT ![d] = NoJob]
    /\ loc' = [loc EXCEPT ![d] = NoLoc]

\* await notifyScrapeJobRetrySuccess(job, resultsCount, attemptNumber, eventName),
\* inside the try block.
NotifyOk(d) ==
    /\ pc[d] = "notifyOk"
    /\ notifs' = Bump(notifs, cur[d].id, "retryOk")
    /\ \E env \in NotifyEnvs :
          /\ Notified(d, env)
          /\ IF notifyScrapeJob(env) = "throw"
             THEN /\ \E e \in ErrLens : Throw(d, e)
                  /\ UNCHANGED <<hist, cur, queue>>
             ELSE /\ EndAttempt(d, Attempt(TRUE, cur[d].retry_count, 0, "retryOk"))
                  /\ UNCHANGED queue
    /\ UNCHANGED <<now, jobs, events, results, started, passes>>
    /\ UNCHANGED otherThanRetry

\* catch: await updateScrapeJob(jobId, {status: 'failed', errorMessage}).
\* updateScrapeJob throws when the update returns an error; nothing in the
\* catch block catches that, so the row stays as it is and the run ends.
Catch(d) ==
    /\ pc[d] = "catch"
    /\ \/ /\ jobs' = [jobs EXCEPT ![cur[d].id] = JobFailed(@, loc[d].err)]
          /\ pc' = [pc EXCEPT ![d] =
                       IF WillRetry(cur[d].retry_count) THEN "schedule" ELSE "notifyPerm"]
          /\ UNCHANGED <<queue, cur, loc>>
       \/ /\ AbortRun(d)
          /\ UNCHANGED jobs
    /\ UNCHANGED <<now, events, results, notifs, hist, started, passes, lastNotify>>
    /\ UNCHANGED otherThanRetry

\* await scheduleRetry(jobId, currentRetryCount)
Schedule(d) ==
    /\ pc[d] = "schedule"
    /\ jobs' = [jobs EXCEPT ![cur[d].id] = scheduleRetry(@, cur[d].retry_count)]
    /\ loc' = [loc EXCEPT ![d].off = jobs'[cur[d].id].next_retry_at - now]
    /\ pc' = [pc EXCEPT ![d] = "notifyFail"]
    /\ UNCHANGED <<now, events, results, notifs, hist, started, passes, queue, cur, lastNotify>>
    /\ UNCHANGED otherThanRetry

\* await notifyScrapeJobFailed(job, errorMessage, true, currentRetryCount + 1)
NotifyFail(d) ==
    /\ pc[d] = "notifyFail"
    /\ notifs' = Bump(notifs, cur[d].id, "failed")
    /\ \E env \in NotifyEnvs :
          /\ Notified(d, env)
          /\ IF notifyScrapeJob(env) = "throw"
             THEN AbortRun(d) /\ UNCHANGED hist
             ELSE /\ EndAttempt(d, Attempt(FALSE, cur[d].retry_count, loc[d].off, "failed"))
                  /\ UNCHANGED queue
    /\ UNCHANGED <<now, jobs, events, results, started, passes>>
    /\ UNCHANGED otherThanRetry

\* await notifyScrapeJobPermanentFailure(job, errorMessage)
NotifyPerm(d) ==
    /\ pc[d] = "notifyPerm"
    /\ notifs' = Bump(notifs, cur[d].id, "perm")
    /\ \E env \in NotifyEnvs :
          /\ Notified(d, env)
          /\ IF notifyScrapeJob(env) = "throw"
             THEN AbortRun(d) /\ UNCHANGED hist
             ELSE /\ EndAttempt(d, Attempt(FALSE, cur[d].retry_count, 0, "perm"))
                  /\ UNCHANGED queue
    /\ UNCHANGED <<now, jobs, events, results, started, passes>>
    /\ UNCHANGED otherThanRetry

\* The clock reaches the next instant at which a retry falls due.
PendingTimes == {jobs[j].next_retry_at : j \in Jobs} \ (Null..now)

Tick ==
    /\ PendingTimes # {}
    /\ now' = CHOOSE t \in PendingTimes : \A u \in PendingTimes : t <= u
    /\ UNCHANGED <<jobs, events, results, notifs, hist, started, passes, pc, queue, cur, loc, lastNotify>>
    /\ UNCHANGED otherThanRetry

\* -------------------------------------------------------- endpoint monitor
\* getEndpointStatus returns null when the endpoint has no current row.
NoRow == [status |-> "none", lastStatusChange |-> Null, consecutiveFailures |-> 0]

\* fs.existsSync(STATE_FILE) is false.
NoFile == [lastStatus |-> "none", lastStatusChange |-> Null, consecutiveFailures |-> 0]

NoProbe == [kind |-> "none", prev |-> "unknown", isUp |-> FALSE,
            previous |-> NoRow, previousState |-> NoFile]

NoResult == [kind |-> "none", prev |-> "unknown", token |-> "unknown",
             stateChanged |-> FALSE, wentUp |-> FALSE, wentDown |-> FALSE]

NoWrite == [before |-> NoRow, after |-> NoRow, at |-> Null]

\* currentStatus.isUp ? 'up' : 'down'
StatusLabel(isUp) == IF isUp THEN "up" ELSE "down"

\* previousStatus?.status || 'unknown'
PreviousStatusLabel(row) == IF row.status = "none" THEN "unknown" ELSE row.status

\* A stateChanged that leaves out the test for 'unknown'.
StateChangedFromAny(previousStatusLabel, currentStatusLabel) ==
    previousStatusLabel # currentStatusLabel

\* previousStatusLabel !== 'unknown' && previousStatusLabel !== currentStatusLabel
StateChanged(previousStatusLabel, currentStatusLabel) ==
    previousStatusLabel # "unknown" /\ previousStatusLabel # currentStatusLabel

\* The MonitorResult of monitorEndpoint and of monitor.
MonitorResult(kind, previousStatusLabel, isUp) ==
    LET stateChanged == StateChanged(previousStatusLabel, StatusLabel(isUp))
    IN  [kind |-> kind, prev |-> previousStatusLabel, token |-> StatusLabel(isUp),
         stateChanged |-> stateChanged,
         wentUp |-> stateChanged /\ isUp,
         wentDown |-> stateChanged /\ ~isUp]

\* saveEndpointStatus: the row it upserts at time t, from the row it read.
CurrentStatusData(previousStatus, status, t) ==
    LET statusChanged == previousStatus.status = "none" \/ previousStatus.status # status
    IN  [status |-> status,
         lastStatusChange |-> IF statusChanged THEN t
                              ELSE previousStatus.lastStatusChange,
         consecutiveFailures |-> IF status = "down"
                                 THEN previousStatus.consecutiveFailures + 1 ELSE 0]

\* loadState: the file's contents, or the default state made at the call.
loadState ==
    IF stateFile.lastStatus = "none"
    THEN [lastStatus |-> "unknown", lastStatusChange |-> clock, consecutiveFailures |-> 0]
    ELSE stateFile

\* monitor: newState, at time t.
NewState(previousState, isUp, t) ==
    [lastStatus |-> StatusLabel(isUp),
     lastStatusChange |-> IF StateChanged(previousState.lastStatus, StatusLabel(isUp))
                          THEN t ELSE previousState.lastStatusChange,
     consecutiveFailures |-> IF isUp THEN 0 ELSE previousState.consecutiveFailures + 1]

MonitorInit ==
    /\ clock = 0
    /\ endpointCurrent = NoRow
    /\ endpointHistory = <<>>
    /\ stateFile = NoFile
    /\ probes = 0
    /\ mpc = [p \in Probers |-> "idle"]
    /\ mloc = [p \in Probers |-> NoProbe]
    /\ ret = [p \in Probers |-> NoResult]
    /\ lastWrite = NoWrite

\* monitorEndpoint: const previousStatus = await getEndpointStatus(endpoint.id)
MonitorEndpointBegin(p) ==
    /\ mpc[p] = "idle"
    /\ probes < MaxProbes
    /\ probes' = probes + 1
    /\ mloc' = [mloc EXCEPT ![p] = [NoProbe EXCEPT !.kind = "db",
                                       !.prev = PreviousStatusLabel(endpointCurrent)]]
    /\ mpc' = [mpc EXCEPT ![p] = "check"]
    /\ UNCHANGED <<clock, endpointCurrent, endpointHistory, stateFile, ret, lastWrite>>
    /\ UNCHANGED otherThanMonitor

\* monitor: const previousState = loadState()
MonitorBegin(p) ==
    /\ mpc[p] = "idle"
    /\ probes < MaxProbes
    /\ probes' = probes + 1
    /\ mloc' = [mloc EXCEPT ![p] = [NoProbe EXCEPT !.kind = "file",
                                       !.prev = loadState.lastStatus,
                                       !.previousState = loadState]]
    /\ mpc' = [mpc EXCEPT ![p] = "check"]
    /\ UNCHANGED <<clock, endpointCurrent, endpointHistory, stateFile, ret, lastWrite>>
    /\ UNCHANGED otherThanMonitor

\* const currentStatus = await checkSiteStatus(url)
CheckSiteStatus(p) ==
    /\ mpc[p] = "check"
    /\ \E isUp \in BOOLEAN : mloc' = [mloc EXCEPT ![p].isUp = isUp]
    /\ mpc' = [mpc EXCEPT ![p] = IF mloc[p].kind = "db" THEN "save" ELSE "saveState"]
    /\ UNCHANGED <<clock, endpointCurrent, endpointHistory, stateFile, probes, ret, lastWrite>>
    /\ UNCHANGED otherThanMonitor

\* saveEndpointStatus: const previousStatus = await getEndpointStatus(endpointId)
SaveRead(p) ==
    /\ mpc[p] = "save"
    /\ mloc' = [mloc EXCEPT ![p].previous = endpointCurrent]
    /\ mpc' = [mpc EXCEPT ![p] = "history"]
    /\ UNCHANGED <<clock, endpointCurrent, endpointHistory, stateFile, probes, ret, lastWrite>>
    /\ UNCHANGED otherThanMonitor

\* saveEndpointStatus: insert into endpoint_status_history
SaveHistory(p) ==
    /\ mpc[p] = "history"
    /\ endpointHistory' = Append(endpointHistory, StatusLabel(mloc[p].isUp))
    /\ mpc' = [mpc EXCEPT ![p] = "upsert"]
    /\ UNCHANGED <<clock, endpointCurrent, stateFile, probes, mloc, ret, lastWrite>>
    /\ UNCHANGED otherThanMonitor

\* saveEndpointStatus: upsert into endpoint_status_current; monitorEndpoint
\* returns.  When the upsert returns an error saveEndpointStatus throws, and
\* so does monitorEndpoint: the history row stays, the current row is as it was.
SaveCurrent(p) ==
    /\ mpc[p] = "upsert"
    /\ \/ /\ endpointCurrent' =
                 CurrentStatusData(mloc[p].previous, StatusLabel(mloc[p].isUp), clock)
          /\ lastWrite' = [before |-> endpointCurrent, after |-> endpointCurrent',
                           at |-> clock]
          /\ ret' = [ret EXCEPT ![p] = MonitorResult("db", mloc[p].prev, mloc[p].isUp)]
       \/ UNCHANGED <<endpointCurrent, lastWrite, ret>>
    /\ mloc' = [mloc EXCEPT ![p] = NoProbe]
    /\ mpc' = [mpc EXCEPT ![p] = "idle"]
    /\ UNCHANGED <<clock, endpointHistory, stateFile, probes>>
    /\ UNCHANGED otherThanMonitor

\* monitor: saveState(newState); return
SaveState(p) ==
    /\ mpc[p] = "saveState"
    /\ stateFile' = NewState(mloc[p].previousState, mloc[p].isUp, clock)
    /\ ret' = [ret EXCEPT ![p] = MonitorResult("file", mloc[p].prev, mloc[p].isUp)]
    /\ mloc' = [mloc EXCEPT ![p] = NoProbe]
    /\ mpc' = [mpc EXCEPT ![p] = "idle"]
    /\ UNCHANGED <<clock, endpointCurrent, endpointHistory, probes, lastWrite>>
    /\ UNCHANGED otherThanMonitor

ClockTick ==
    /\ clock < MaxClock
    /\ clock' = clock + 1
    /\ UNCHANGED <<endpointCurrent, endpointHistory, stateFile, probes, mpc, mloc, ret,
                   lastWrite>>
    /\ UNCHANGED otherThanMonitor

\* The monitors: overlapping probes of one endpoint, and the clock.
MonitorNext ==
    \/ ClockTick
    \/ \E p \in Probers :
          \/ MonitorEndpointBegin(p) \/ MonitorBegin(p) \/ CheckSiteStatus(p)
          \/ SaveRead(p) \/ SaveHistory(p) \/ SaveCurrent(p) \/ SaveState(p)

\* ---------------------------------------------------------- browser manager
\* const MAX_CONCURRENT_PAGES = 3
MAX_CONCURRENT_PAGES == 3

BrowserInit ==
    /\ browser = "none"
    /\ context = "none"
    /\ pageCount = 0
    /\ isInitializing = FALSE
    /\ initPromise = "none"
    /\ openPages = 0
    /\ bpc = [c \in Callers |-> "idle"]
    /\ spc = [h \in Signals |-> "idle"]

\* process.exit(0) has been called.
Exited == \E h \in Signals : spc[h] = "exited"

\* getPage: await this.initialize(), up to its first await.
GetPageBegin(c) ==
    /\ ~Exited
    /\ bpc[c] = "idle"
    /\ IF isInitializing /\ initPromise # "none"
       THEN /\ bpc' = [bpc EXCEPT ![c] = "awaitInit"]
            /\ UNCHANGED <<isInitializing, initPromise>>
       ELSE IF browser # "none"
       THEN /\ bpc' = [bpc EXCEPT ![c] = "check"]
            /\ UNCHANGED <<isInitializing, initPromise>>
       ELSE /\ isInitializing' = TRUE
            /\ initPromise' = "pending"
            /\ bpc' = [bpc EXCEPT ![c] = "launch"]
    /\ UNCHANGED <<browser, context, pageCount, openPages, spc>>
    /\ UNCHANGED otherThanBrowser

\* _doInitialize: this.browser = await chromium.launch(...)
Launch(c) ==
    /\ ~Exited
    /\ bpc[c] = "launch"
    /\ \/ /\ browser' = "open"
          /\ bpc' = [bpc EXCEPT ![c] = "newContext"]
          /\ UNCHANGED initPromise
       \/ /\ initPromise' = "rejected"
          /\ bpc' = [bpc EXCEPT ![c] = "idle"]
          /\ UNCHANGED browser
    /\ UNCHANGED <<context, pageCount, isInitializing, openPages, spc>>
    /\ UNCHANGED otherThanBrowser

\* _doInitialize: this.context = await this.browser.newContext(...); then
\* initialize: this.isInitializing = false
NewContext(c) ==
    /\ ~Exited
    /\ bpc[c] = "newContext"
    /\ \/ /\ browser = "open"
          /\ context' = "open"
          /\ initPromise' = "resolved"
          /\ isInitializing' = FALSE
          /\ bpc' = [bpc EXCEPT ![c] = "check"]
       \/ /\ initPromise' = "rejected"
          /\ bpc' = [bpc EXCEPT ![c] = "idle"]
          /\ UNCHANGED <<context, isInitializing>>
    /\ UNCHANGED <<browser, pageCount, openPages, spc>>
    /\ UNCHANGED otherThanBrowser

\* initialize: return this.initPromise, awaited by getPage.
AwaitInit(c) ==
    /\ ~Exited
    /\ bpc[c] = "awaitInit"
    /\ initPromise \in {"resolved", "rejected"}
    /\ bpc' = [bpc EXCEPT ![c] =
                  IF initPromise = "resolved" THEN "check" ELSE "idle"]
    /\ UNCHANGED <<browser, context, pageCount, isInitializing, initPromise, openPages, spc>>
    /\ UNCHANGED otherThanBrowser

\* getPage: the two checks, then the call of this.context.newPage().
CheckLimit(c) ==
    /\ ~Exited
    /\ bpc[c] = "check"
    /\ bpc' = [bpc EXCEPT ![c] =
                  IF context = "none" \/ pageCount >= MAX_CONCURRENT_PAGES
                  THEN "idle" ELSE "newPage"]
    /\ UNCHANGED <<browser, context, pageCount, isInitializing, initPromise, openPages, spc>>
    /\ UNCHANGED otherThanBrowser

\* getPage: newPage() resolves (or rejects, the context being closed), then
\* this.pageCount++; the page is returned unless page.route(...), awaited for
\* blockResources, rejects and getPage throws with the page counted.
NewPage(c) ==
    /\ ~Exited
    /\ bpc[c] = "newPage"
    /\ IF context = "open"
       THEN /\ openPages' = openPages + 1
            /\ pageCount' = pageCount + 1
            /\ \E routed \in BOOLEAN :
                  bpc' = [bpc EXCEPT ![c] = IF routed THEN "using" ELSE "idle"]
       ELSE /\ bpc' = [bpc EXCEPT ![c] = "idle"]
            /\ UNCHANGED <<openPages, pageCount>>
    /\ UNCHANGED <<browser, context, isInitializing, initPromise, spc>>
    /\ UNCHANGED otherThanBrowser

\* closePage: await page.close(); this.pageCount = Math.max(0, pageCount - 1);
\* an error of page.close() is logged and the count is left alone.
ClosePage(c) ==
    /\ ~Exited
    /\ bpc[c] = "using"
    /\ \/ /\ openPages' = IF openPages > 0 THEN openPages - 1 ELSE 0
          /\ pageCount' = IF pageCount > 0 THEN pageCount - 1 ELSE 0
       \/ UNCHANGED <<openPages, pageCount>>
    /\ bpc' = [bpc EXCEPT ![c] = "idle"]
    /\ UNCHANGED <<browser, context, isInitializing, initPromise, spc>>
    /\ UNCHANGED otherThanBrowser

\* A shutdown that closes the context without testing for it.
ClosesUnguarded(ctx) == TRUE

\* shutdown: if (this.context) ...; if (this.browser) ...
HasContext(ctx) == ctx # "none"

HasBrowser(b) == b # "none"

\* shutdown after the context part: the browser part, or the end.
AfterContext(h, b) ==
    IF HasBrowser(b)
    THEN /\ spc' = [spc EXCEPT ![h] = "browserClose"]
         /\ UNCHANGED pageCount
    ELSE /\ spc' = [spc EXCEPT ![h] = "returned"]
         /\ pageCount' = 0

\* The handler of signal h calls shutdown(), which runs up to its first
\* await.  Calling close() on null throws out of shutdown.
ShutdownBegin(h) ==
    /\ ~Exited
    /\ spc[h] = "idle"
    /\ IF HasContext(context)
       THEN /\ spc' = [spc EXCEPT ![h] = IF context = "none" THEN "error"
                                          ELSE "contextClose"]
            /\ UNCHANGED pageCount
       ELSE AfterContext(h, browser)
    /\ UNCHANGED <<browser, context, isInitializing, initPromise, openPages, bpc>>
    /\ UNCHANGED otherThanBrowser

\* await this.context.close() resolves (also for a context that another call
\* is closing or has closed); this.context = null
ShutdownContext(h) ==
    /\ ~Exited
    /\ spc[h] = "contextClose"
    /\ context' = "none"
    /\ openPages' = 0
    /\ AfterContext(h, browser)
    /\ UNCHANGED <<browser, isInitializing, initPromise, bpc>>
    /\ UNCHANGED otherThanBrowser

\* await this.browser.close() resolves; this.browser = null; this.pageCount = 0
ShutdownBrowser(h) ==
    /\ ~Exited
    /\ spc[h] = "browserClose"
    /\ browser' = "none"
    /\ openPages' = 0
    /\ pageCount' = 0
    /\ spc' = [spc EXCEPT ![h] = "returned"]
    /\ UNCHANGED <<context, isInitializing, initPromise, bpc>>
    /\ UNCHANGED otherThanBrowser

\* process.exit(0)
Exit(h) ==
    /\ ~Exited
    /\ spc[h] = "returned"
    /\ spc' = [spc EXCEPT ![h] = "exited"]
    /\ UNCHANGED <<browser, context, pageCount, isInitializing, initPromise, openPages, bpc>>
    /\ UNCHANGED otherThanBrowser

HandlerStep ==
    \E h \in Signals :
        ShutdownBegin(h) \/ ShutdownContext(h) \/ ShutdownBrowser(h) \/ Exit(h)

CallerStep ==
    \E c \in Callers :
        \/ GetPageBegin(c) \/ Launch(c) \/ NewContext(c) \/ AwaitInit(c)
        \/ CheckLimit(c) \/ NewPage(c) \/ ClosePage(c)

\* The browser manager: concurrent scrapes taking and releasing pages, and
\* the signal handlers.
BrowserNext == HandlerStep \/ CallerStep

\* The signal handlers alone: the scrapes stand still once a signal has come.
ShutdownNext ==
    \/ HandlerStep
    \/ (\A h \in Signals : spc[h] = "idle") /\ CallerStep

\* ----------------------------------------------------------- athlete matcher
\* autoMatchResults(confidenceThreshold = 90)
ConfidenceThreshold == 90

\* findMatchesForResult(result, 0.3), in thousandths.
AutoMatchThreshold == 300

\* The scores Fuse may give an athlete for a result, in thousandths
\* (0 = identical), and NoScore for an athlete the search does not return.
NoScore == 0 - 1
FuseScores == {0, 50, 104, 250, 300}

\* Math.round((1 - (match.score || 1)) * 100): a score of 0 is falsy and is
\* replaced by 1.
Confidence(score) ==
    LET s == IF score = 0 THEN 1000 ELSE score
    IN  ((1000 - s) + 5) \div 10

\* findMatchesForResult: the Fuse matches with score < threshold, each with
\* the score it reports (match.score || 1) and its confidence; fuse is the
\* score Fuse gave.
findMatchesForResult(scores, threshold) ==
    {[athlete |-> a, fuse |-> scores[a],
      score |-> IF scores[a] = 0 THEN 1000 ELSE scores[a],
      confidence |-> Confidence(scores[a])] :
        a \in {b \in Athletes : scores[b] # NoScore /\ scores[b] < threshold}}

\* A rule that links whenever some match reaches the threshold.
LinksAnyHighMatch(matches, confidenceThreshold) ==
    \E m \in matches : m.confidence >= confidenceThreshold

\* matches.length === 1 && matches[0].confidence >= confidenceThreshold
LinksSingleMatch(matches, confidenceThreshold) ==
    /\ Cardinality(matches) = 1
    /\ \A m \in matches : m.confidence >= confidenceThreshold

\* getUnmatchedResults: the results whose athlete_id is null, as a list.
RECURSIVE SeqOfSet(_)
SeqOfSet(S) ==
    IF S = {} THEN <<>>
    ELSE LET x == CHOOSE y \in S : \A z \in S : y >= z
         IN  <<x>> \o SeqOfSet(S \ {x})

getUnmatchedResults == SeqOfSet({r \in ResultIds : athleteId[r] = 0})

NoMatchLoc == [unmatched |-> <<>>, matched |-> 0, skipped |-> 0]
NoDecision == [result |-> 0, matches |-> {}, linked |-> FALSE]

MatcherInit ==
    /\ athleteId = [r \in ResultIds |-> 0]
    /\ matchRuns = 0
    /\ apc = [m \in Matchers |-> "idle"]
    /\ aloc = [m \in Matchers |-> NoMatchLoc]
    /\ adec = [m \in Matchers |-> NoDecision]

\* autoMatchResults: const unmatchedResults = await getUnmatchedResults(eventId)
AutoMatchBegin(m) ==
    /\ apc[m] = "idle"
    /\ matchRuns < MaxMatchRuns
    /\ matchRuns' = matchRuns + 1
    /\ aloc' = [aloc EXCEPT ![m] = [NoMatchLoc EXCEPT !.unmatched = getUnmatchedResults]]
    /\ apc' = [apc EXCEPT ![m] = "loop"]
    /\ UNCHANGED <<athleteId, adec>>
    /\ UNCHANGED otherThanMatcher

\* for (const result of unmatchedResults): one turn of the loop,
\*   const matches = await findMatchesForResult(result, 0.3)
\*   if (...) { await linkResult(result.id, matches[0].athlete.id); matched++ }
\*   else { skipped++ }
\* The search reads the athletes only, so the turn is taken at its one write.
MatchResult(m) ==
    /\ apc[m] = "loop"
    /\ aloc[m].unmatched # <<>>
    /\ \E scores \in [Athletes -> FuseScores \cup {NoScore}] :
          LET result == Head(aloc[m].unmatched)
              matches == findMatchesForResult(scores, AutoMatchThreshold)
              link == LinksSingleMatch(matches, ConfidenceThreshold)
          IN  /\ athleteId' =
                     IF link
                     THEN [athleteId EXCEPT ![result] =
                              (CHOOSE c \in matches : TRUE).athlete]
                     ELSE athleteId
              /\ aloc' = [aloc EXCEPT ![m].unmatched = Tail(@),
                                      ![m].matched = IF link THEN @ + 1 ELSE @,
                                      ![m].skipped = IF link THEN @ ELSE @ + 1]
              /\ adec' = [adec EXCEPT ![m] = [result |-> result,
                                              matches |-> matches,
                                              linked |-> link]]
    /\ UNCHANGED <<matchRuns, apc>>
    /\ UNCHANGED otherThanMatcher

\* return { matched, skipped }
AutoMatchReturn(m) ==
    /\ apc[m] = "loop"
    /\ aloc[m].unmatched = <<>>
    /\ apc' = [apc EXCEPT ![m] = "idle"]
    /\ adec' = [adec EXCEPT ![m] = NoDecision]
    /\ UNCHANGED <<athleteId, matchRuns, aloc>>
    /\ UNCHANGED otherThanMatcher

\* unlinkResultFromAthlete(resultId), from the API.
Unlink(r) ==
    /\ athleteId[r] # 0
    /\ athleteId' = [athleteId EXCEPT ![r] = 0]
    /\ UNCHANGED <<matchRuns, apc, aloc, adec>>
    /\ UNCHANGED otherThanMatcher

\* linkResult(resultId, athleteId), the link made by hand for a result that
\* has none: an update by id.
LinkResult(r, a) ==
    /\ athleteId[r] = 0
    /\ athleteId' = [athleteId EXCEPT ![r] = a]
    /\ UNCHANGED <<matchRuns, apc, aloc, adec>>
    /\ UNCHANGED otherThanMatcher

\* The matcher: overlapping autoMatchResults runs.
MatcherNext ==
    \/ \E r \in ResultIds : \E a \in Athletes : LinkResult(r, a)
    \/ \E r \in ResultIds : Unlink(r)
    \/ \E m \in Matchers :
          \/ AutoMatchBegin(m) \/ MatchResult(m) \/ AutoMatchReturn(m)

\* ---------------------------------------------------------- checkSiteStatus
\* What a GET may meet: a transport error (timeout, refused connection) or a
\* response; validateStatus accepts every status.
\* apiResponse.data: the empty string, a string of at most 100 characters, a
\* longer string containing 'error', a longer string without it, an object.
Bodies == {"empty", "short", "longError", "long", "object"}

\* The main page: descriptor tells whether extractResultsApiUrl finds the
\* results component with its URL and a first race.
PageResponses ==
    [err : {TRUE}, status : {0}, descriptor : {FALSE}]
        \cup [err : {FALSE}, status : {200, 302, 404, 500}, descriptor : BOOLEAN]

ApiResponses ==
    [err : {TRUE}, status : {0}, body : {"empty"}]
        \cup [err : {FALSE}, status : {200, 204, 302, 404, 500}, body : Bodies]

NoSiteStatus == [isUp |-> FALSE, statusCode |-> Null, hasResults |-> FALSE]

SiteStatus(isUp, statusCode, hasResults) ==
    [isUp |-> isUp, statusCode |-> statusCode, hasResults |-> hasResults]

\* if (isUp && apiResponse.data): a string counts when longer than 100
\* characters and without 'error'; an object always counts.
HasResults(isUp, body) ==
    isUp /\ body # "empty" /\ (body = "long" \/ body = "object")

\* checkSiteStatus(url), the same in monitor.ts and endpoint-monitor.ts.
checkSiteStatus(page, api) ==
    IF page.err THEN SiteStatus(FALSE, 0, FALSE)
    ELSE IF page.status >= 400 THEN SiteStatus(FALSE, page.status, FALSE)
    ELSE IF ~page.descriptor THEN SiteStatus(TRUE, 200, FALSE)
    ELSE IF api.err THEN SiteStatus(FALSE, 0, FALSE)
    ELSE LET isUp == api.status >= 200 /\ api.status < 400
         IN  SiteStatus(isUp, api.status, HasResults(isUp, api.body))

\* ---------------------------------------------- scrapeDistanceWithPlaywright
\* scrapeDistanceStatic: it throws, or returns its rows and the number of
\* pages its pagination detected.
StaticResults ==
    [throws : {TRUE}, rows : {0}, totalPages : {1}]
        \cup [throws : {FALSE}, rows : {0, 50, 100, 200}, totalPages : {1, 2}]

\* options.useHeadlessBrowser: not given, true or false.
HeadlessOptions == {"undefined", "true", "false"}

\* scrapeDistanceHeadless: it throws, or returns its rows.
HeadlessResults == [throws : BOOLEAN, rows : {250}]

\* A trigger that leaves out the test for an empty parse.
RoundRowCount(staticResult) ==
    staticResult.rows % 100 = 0 /\ staticResult.totalPages = 1

\* results.length > 0 && results.length % 100 === 0 && totalPages === 1
PossiblePaginationIssue(staticResult) ==
    /\ staticResult.rows > 0
    /\ staticResult.rows % 100 = 0
    /\ staticResult.totalPages = 1

\* What scrapeDistanceWithPlaywright returns: whose rows, and how many.
scrapeDistanceWithPlaywright(staticResult, useHeadlessBrowser, headless) ==
    IF staticResult.throws THEN [from |-> "throws", rows |-> 0]
    ELSE IF /\ PossiblePaginationIssue(staticResult)
            /\ useHeadlessBrowser # "false"
            /\ ~headless.throws
    THEN [from |-> "headless", rows |-> headless.rows]
    ELSE [from |-> "static", rows |-> staticResult.rows]

\* The progress events of one distance: one 'scraping' event per page of the
\* static parse (none when the first fetch throws), then those of the
\* headless scrape when it runs to its end.
DistanceProgress(staticResult, useHeadlessBrowser, headless) ==
    IF staticResult.throws THEN <<>>
    ELSE [i \in 1..staticResult.totalPages |-> "scraping"]
            \o (IF /\ PossiblePaginationIssue(staticResult)
                   /\ useHeadlessBrowser # "false"
                   /\ ~headless.throws
                THEN <<"scraping">> ELSE <<>>)

\* usedHeadlessBrowser: options.useHeadlessBrowser ?? false
UsedHeadlessBrowser(useHeadlessBrowser) == useHeadlessBrowser = "true"

NoEventOut ==
    [ended |-> "none", results |-> 0, errors |-> 0,
     usedHeadlessBrowser |-> FALSE, progress |-> <<>>]

\* scrapeEvent(url, options, onProgress) for one requested distance: new
\* URL(url) throws on a string that is no URL; an error of the distance is
\* caught and recorded; the payload is returned whatever the number of rows.
scrapeEvent(urlParses, staticResult, useHeadlessBrowser, headless) ==
    IF ~urlParses
    THEN [NoEventOut EXCEPT !.ended = "throws", !.progress = <<"initializing">>]
    ELSE LET distanceResults == scrapeDistanceWithPlaywright(
                                    staticResult, useHeadlessBrowser, headless)
         IN  [ended |-> "returns",
              results |-> distanceResults.rows,
              errors |-> IF distanceResults.from = "throws" THEN 1 ELSE 0,
              usedHeadlessBrowser |-> UsedHeadlessBrowser(useHeadlessBrowser),
              progress |-> <<"initializing", "scraping">>
                    \o DistanceProgress(staticResult, useHeadlessBrowser, headless)
                    \o <<"validating", "complete">>]

\* -------------------------------------------------------------- normalizeName
\* The characters of a name: an ASCII lower-case letter, an upper-case one, a
\* precomposed accented letter, a space, a punctuation mark, and the
\* combining mark that NFD splits off the accented letter.
NameChars == {"a", "A", "é", " ", "-"}

CombiningMark == "´"

Names == UNION {[1..n -> NameChars] : n \in 0..MaxNameLen}

\* .toLowerCase()
RECURSIVE toLowerCase(_)
toLowerCase(s) ==
    IF s = <<>> THEN <<>>
    ELSE <<IF Head(s) = "A" THEN "a" ELSE Head(s)>> \o toLowerCase(Tail(s))

\* .trim(): the white space at both ends is removed.
RECURSIVE trimStart(_)
trimStart(s) ==
    IF s # <<>> /\ Head(s) = " " THEN trimStart(Tail(s)) ELSE s

RECURSIVE trim(_)
trim(s) ==
    LET t == trimStart(s)
    IN  IF t # <<>> /\ t[Len(t)] = " " THEN trim(SubSeq(t, 1, Len(t) - 1)) ELSE t

\* .normalize('NFD'): a precomposed letter becomes its base letter and mark.
RECURSIVE normalizeNFD(_)
normalizeNFD(s) ==
    IF s = <<>> THEN <<>>
    ELSE (IF Head(s) = "é" THEN <<"e", CombiningMark>> ELSE <<Head(s)>>)
            \o normalizeNFD(Tail(s))

\* .replace(/\s+/g, ' ')
RECURSIVE collapseWhitespace(_)
collapseWhitespace(s) ==
    IF Len(s) < 2 THEN s
    ELSE IF s[1] = " " /\ s[2] = " " THEN collapseWhitespace(Tail(s))
    ELSE <<s[1]>> \o collapseWhitespace(Tail(s))

\* normalizeName(name), in the order of its calls: lower case, trim, NFD,
\* remove the combining marks U+0300..U+036F, remove what is neither \w nor
\* \s, collapse white space.
normalizeName(name) ==
    LET decomposed == normalizeNFD(trim(toLowerCase(name)))
        unaccented == SelectSeq(decomposed, LAMBDA ch : ch # CombiningMark)
        plain == SelectSeq(unaccented, LAMBDA ch : ch \in {"a", "A", "e", " "})
    IN  collapseWhitespace(plain)

\* One call of normalizeName.
Normalize(name) ==
    /\ nameIn' = name
    /\ nameOut' = normalizeName(name)
    /\ UNCHANGED <<probeIn, probeOut, scrapeIn, scrapeOut, eventOut>>
    /\ UNCHANGED otherThanCalls

NameNext == \E name \in Names : Normalize(name)

CallInit ==
    /\ probeIn = [page |-> [err |-> TRUE, status |-> 0, descriptor |-> FALSE],
                  api |-> [err |-> TRUE, status |-> 0, body |-> "empty"]]
    /\ probeOut = NoSiteStatus
    /\ scrapeIn = [urlParses |-> FALSE,
                   static |-> [throws |-> TRUE, rows |-> 0, totalPages |-> 1],
                   option |-> "undefined",
                   headless |-> [throws |-> TRUE, rows |-> 250]]
    /\ scrapeOut = [from |-> "none", rows |-> 0]
    /\ eventOut = NoEventOut
    /\ nameIn = <<>>
    /\ nameOut = <<>>

\* One probe of the endpoint.
Probe(page, api) ==
    /\ probeIn' = [page |-> page, api |-> api]
    /\ probeOut' = checkSiteStatus(page, api)
    /\ UNCHANGED <<scrapeIn, scrapeOut, eventOut, nameIn, nameOut>>
    /\ UNCHANGED otherThanCalls

\* One scrapeEvent call, with the call of scrapeDistanceWithPlaywright in it.
ScrapeEvent(urlParses, staticResult, option, headless) ==
    /\ scrapeIn' = [urlParses |-> urlParses, static |-> staticResult,
                    option |-> option, headless |-> headless]
    /\ scrapeOut' = IF urlParses
                    THEN scrapeDistanceWithPlaywright(staticResult, option, headless)
                    ELSE [from |-> "none", rows |-> 0]
    /\ eventOut' = scrapeEvent(urlParses, staticResult, option, headless)
    /\ UNCHANGED <<probeIn, probeOut, nameIn, nameOut>>
    /\ UNCHANGED otherThanCalls

CallNext ==
    \E page \in PageResponses : \E api \in ApiResponses : Probe(page, api)

ScrapeNext ==
    \E u \in BOOLEAN : \E st \in StaticResults :
        \E o \in HeadlessOptions : \E h \in HeadlessResults :
            ScrapeEvent(u, st, o, h)

\* ----------------------------------------------------------- specifications
Init == RetryInit /\ MonitorInit /\ BrowserInit /\ MatcherInit /\ CallInit

\* The retry queue: first attempts, overlapping drainer runs and the clock.
Next ==
    \/ Tick
    \/ \E j \in Jobs : createScrapeJob(j) \/ FirstIngest(j)
    \/ \E d \in Drainers :
          \/ GetJobs(d) \/ NextJob(d) \/ Reset(d) \/ GetEvent(d) \/ Scrape(d)
          \/ SaveEvent(d) \/ SaveResults(d) \/ Count(d) \/ Complete(d)
          \/ NotifyOk(d) \/ Catch(d) \/ Schedule(d) \/ NotifyFail(d) \/ NotifyPerm(d)

Spec == Init /\ [][Next]_vars

SpecMonitor == Init /\ [][MonitorNext]_vars

SpecBrowser == Init /\ [][BrowserNext]_vars

SpecShutdown == Init /\ [][ShutdownNext]_vars

SpecMatcher == Init /\ [][MatcherNext]_vars

SpecCalls == Init /\ [][CallNext]_vars

SpecScrape == Init /\ [][ScrapeNext]_vars

SpecNames == Init /\ [][NameNext]_vars

\* ------------------------------------------------------ retry queue claims
FailedAttempts(j) == {i \in 1..Len(hist[j]) : ~hist[j][i].ok}

\* Two runs work on the same job snapshot, both past resetJobForRetry.
AtWork(d) == pc[d] \notin {"idle", "loop", "reset"}

\* The events rows created for the URL of job j.
EventsOfJob(j) ==
    {i \in 1..Len(events) :
        \E sc \in {"hopasports", "evochip"} :
            events[i] = ScrapedEventUrl(sc, jobs[j].event_url)}

\* C1: every failed attempt made while retry_count is below maxRetries (3)
\* schedules the retry RETRY_INTERVALS_MS[retry_count] minutes after the
\* failure, for retry_count 0, 1 and 2.
C1_RetryScheduledBelowMaxRetries ==
    \A j \in Jobs : \A i \in FailedAttempts(j) :
        hist[j][i].rc < MAX_RETRIES =>
            hist[j][i].off = RETRY_INTERVALS_MS[hist[j][i].rc + 1]

\* C2: two overlapping processRetryQueue runs never both re-run the scrape of
\* the same scheduled retry of a job.
C2_NoJobPickedByTwoRuns ==
    \A d1, d2 \in Drainers :
        (d1 # d2 /\ AtWork(d1) /\ AtWork(d2)) => cur[d1] # cur[d2]

\* C3: in every reachable state there is at most one events row for the URL
\* of a job: a re-run reuses the row the earlier run created.
C3_OneEventPerJobUrl ==
    \A j \in Jobs : Cardinality(EventsOfJob(j)) <= 1

\* C4: a job recorded as failed carries a stored error message of at most
\* 100 characters.
C4_StoredErrorAtMost100 ==
    \A j \in Jobs :
        jobs[j].status = "failed" => jobs[j].error_len <= NotifyErrorLimit

\* C5: the permanent-failure notification is sent once the job has failed on
\* four consecutive attempts.
C5_PermanentAfterFourFailures ==
    \A j \in Jobs :
        notifs[j].perm > 0 => Cardinality(FailedAttempts(j)) >= MAX_RETRIES + 1

\* The three attempts of job j ran one after the other (retry_count 0, 1, 2),
\* the first two failed and the third succeeded, and nothing else ran.
FailFailSucceed(j) ==
    /\ started[j] = 3
    /\ Len(hist[j]) = 3
    /\ \A i \in 1..3 : hist[j][i].rc = i - 1
    /\ ~hist[j][1].ok /\ ~hist[j][2].ok /\ hist[j][3].ok

\* C6: a job that fails on attempts 1 and 2 and succeeds on attempt 3 was
\* scheduled 5 minutes after the first failure and 15 minutes after the
\* second, ends completed, and produced exactly one retry-success
\* notification.
C6_FailFailSucceed ==
    \A j \in Jobs :
        FailFailSucceed(j) =>
            /\ hist[j][1].off = 5
            /\ hist[j][2].off = 15
            /\ jobs[j].status = "completed"
            /\ notifs[j].retryOk = 1

C6_Witness == \E j \in Jobs : FailFailSucceed(j)

\* ---------------------------------------------------------- monitor claims
\* The number of 'down' rows at the tail of a history.
RECURSIVE TailDowns(_)
TailDowns(h) ==
    IF h = <<>> \/ h[Len(h)] # "down" THEN 0
    ELSE 1 + TailDowns(SubSeq(h, 1, Len(h) - 1))

\* C7: an upsert of the current row sets last_status_change to the time of
\* the probe when the probe's status differs from the status the row carried
\* before the upsert, and otherwise leaves last_status_change as it was.
C7_LastStatusChangeFollowsToken ==
    lastWrite.at # Null =>
        IF lastWrite.after.status # lastWrite.before.status
        THEN lastWrite.after.lastStatusChange = lastWrite.at
        ELSE lastWrite.after.lastStatusChange = lastWrite.before.lastStatusChange

C9_FailuresCountTailDowns ==
    (\A p \in Probers : mpc[p] # "upsert") =>
        endpointCurrent.consecutiveFailures = TailDowns(endpointHistory)

\* ---------------------------------------------------------- browser claims
\* C10: at most MAX_CONCURRENT_PAGES (3) pages are open at any time, whatever
\* the interleaving of getPage and closePage calls.
C10_AtMostThreePages == openPages <= MAX_CONCURRENT_PAGES

\* ---------------------------------------------------------- matcher claims
HighConfidence(matches) == {c \in matches : c.confidence >= ConfidenceThreshold}

\* C11: autoMatchResults never links a result for which more than one
\* candidate has confidence >= 90; it leaves such a result as it was.
C11_NoLinkWhenSeveralHigh ==
    \A m \in Matchers :
        (adec[m].result # 0 /\ Cardinality(HighConfidence(adec[m].matches)) > 1)
            => ~adec[m].linked

\* A run has decided on a result with two candidates of confidence >= 90.
C11_Witness ==
    \E m \in Matchers :
        adec[m].result # 0 /\ Cardinality(HighConfidence(adec[m].matches)) > 1

\* ----------------------------------------------------------------------- C12
NotifySteps == {"notifyOk", "notifyFail", "notifyPerm"}

\* C12: the outcome of a notification never affects the job: whether the
\* notifier delivers, reports failure or meets a transport error, the step of
\* processRetryJob that calls it leaves every job row (status, retry_count,
\* next_retry_at) as it was and ends the attempt normally; a notifier error
\* never sends the job to the failure handling.
C12_NotifierLeavesJobAlone ==
    [][\A d \in Drainers :
          (pc[d] \in NotifySteps /\ pc'[d] # pc[d])
              => (jobs' = jobs /\ pc'[d] = "loop")]_vars

\* A retry succeeded, its job is completed, and the notifier call that
\* followed met a transport error.
C12_Witness ==
    /\ \E d \in Drainers : lastNotify[d] = "transportError" /\ pc[d] = "loop"
    /\ \E j \in Jobs :
          /\ jobs[j].status = "completed"
          /\ hist[j] # <<>>
          /\ hist[j][Len(hist[j])].note = "retryOk"
          /\ \A d \in Drainers : cur[d].id # j

\* ----------------------------------------------------------------------- C13
\* C13: a job's notifications are sent only at its first failure, at a retry
\* that succeeds and at its permanent failure: a failed attempt calls for the
\* failure notification only when it is the job's first attempt, and a failed
\* retry that still has a retry scheduled after it calls for no notification.
C13_NoNoticeForLaterRetryFailure ==
    \A j \in Jobs : \A i \in 1..Len(hist[j]) :
        LET a == hist[j][i]
        IN  /\ (a.note = "failed") => (i = 1 /\ ~a.ok)
            /\ (a.note = "retryOk") => (i > 1 /\ a.ok)
            /\ (a.note = "perm") => (~a.ok /\ a.off = 0)
            /\ (i > 1 /\ ~a.ok /\ a.off # 0) => a.note = "none"

\* ----------------------------------------------------------------------- C14
\* The monitor passes (monitor.ts, started by runCheck) in progress.
PassesInProgress == {p \in Probers : mpc[p] # "idle" /\ mloc[p].kind = "file"}

\* C14: a periodic job never runs concurrently with itself: at most one
\* monitor pass is in progress at any time, a tick starting no new pass
\* while the previous one has not returned.
C14_OnePassAtATime == Cardinality(PassesInProgress) <= 1

\* ----------------------------------------------------------------------- C15
\* C15: when a run has just marked its job completed, the results_count
\* stored on the job equals the number of race_results rows persisted for
\* the job's event.
C15_CountEqualsPersisted ==
    \A d \in Drainers :
        (pc[d] = "notifyOk" /\ jobs[cur[d].id].status = "completed")
            => jobs[cur[d].id].results_count = results[loc[d].eventId]

\* ----------------------------------------------------------------------- C16
\* C16: a probe classifies the endpoint as down when the main page answers
\* with a status of 400 or more or the transport fails; as up with
\* hasResults false when the page carries no descriptor; and, when it carries
\* one, as up exactly when the first race's API answers 2xx/3xx with a
\* non-empty body (a string longer than 100 characters that does not contain
\* 'error', or any object).  The initial probeOut has statusCode Null.
C16_ProbeClassification ==
    (probeOut.statusCode # Null) =>
        LET page == probeIn.page
            api == probeIn.api
        IN  /\ (page.err \/ page.status >= 400) => ~probeOut.isUp
            /\ (~page.err /\ page.status < 400 /\ ~page.descriptor)
                  => (probeOut.isUp /\ ~probeOut.hasResults)
            /\ (~page.err /\ page.status < 400 /\ page.descriptor)
                  => (probeOut.isUp <=>
                         (/\ ~api.err
                          /\ api.status >= 200 /\ api.status < 400
                          /\ api.body \in {"long", "object"}))

\* ----------------------------------------------------------------------- C17
\* C17: a failed launch is retryable: a getPage() called after initialize()
\* has failed (its promise rejected) attempts the launch again.
C17_FailedLaunchRetried ==
    [][\A c \in Callers :
          (initPromise = "rejected" /\ bpc[c] = "idle" /\ bpc'[c] # "idle")
              => bpc'[c] = "launch"]_vars

\* ----------------------------------------------------------------------- C18
\* C18: every page acquired for a headless scrape is released on all paths:
\* once every scrapeDistanceHeadless call has returned or thrown, the
\* manager's page count is back to 0, its value before the first call.
C18_PagesReleased ==
    (\A c \in Callers : bpc[c] = "idle") => pageCount = 0

C20_HeadlessOnlyOnRoundSinglePage ==
    (scrapeOut.from # "none" /\ ~scrapeIn.static.throws) =>
        LET st == scrapeIn.static
            wanted == /\ st.rows > 0
                      /\ st.rows % 100 = 0
                      /\ st.totalPages = 1
                      /\ scrapeIn.option # "false"
                      /\ ~scrapeIn.headless.throws
        IN  /\ wanted => scrapeOut = [from |-> "headless", rows |-> scrapeIn.headless.rows]
            /\ ~wanted => scrapeOut = [from |-> "static", rows |-> st.rows]

\* The static parse found 100 rows on one page and the headless scrape
\* succeeded: the headless rows were returned.
C20_Witness ==
    /\ scrapeIn.static = [throws |-> FALSE, rows |-> 100, totalPages |-> 1]
    /\ ~scrapeIn.headless.throws
    /\ scrapeOut.from = "headless"

\* ----------------------------------------------------------------------- C21
\* C21: whenever a scrape got its rows through the headless renderer, the
\* returned scrapeMetadata.usedHeadlessBrowser is true, and when the static
\* strategy alone produced the rows it is false.
C21_MetadataTellsHeadless ==
    (eventOut.ended = "returns" /\ scrapeOut.from \in {"headless", "static"})
        => (eventOut.usedHeadlessBrowser <=> scrapeOut.from = "headless")

\* ----------------------------------------------------------------------- C22
\* C22: every scrapeEvent call that reports progress delivers initializing
\* first and one terminal stage, as its last event: complete when it returns
\* a payload, error when it fails.
C22_TerminalStageLast ==
    (eventOut.ended # "none") =>
        LET pr == eventOut.progress
            terminal == {i \in 1..Len(pr) : pr[i] \in {"complete", "error"}}
        IN  /\ pr # <<>>
            /\ pr[1] = "initializing"
            /\ terminal = {Len(pr)}
            /\ pr[Len(pr)] = IF eventOut.ended = "returns" THEN "complete" ELSE "error"

\* ----------------------------------------------------------------------- C23
\* C23: a scrape that parsed zero rows in total is a failure: a run whose
\* scrapes of the event returned no row at all, so that it stored none for
\* the event it created, does not mark its job completed.
C23_ZeroRowsNotCompleted ==
    \A d \in Drainers :
        (/\ pc[d] = "notifyOk"
         /\ loc[d].existing = 0
         /\ jobs[cur[d].id].status = "completed")
            => ~(loc[d].n = 0 /\ results[loc[d].eventId] = 0)

\* ----------------------------------------------------------------------- C24
\* C24: normalizeName is idempotent: applied to a name it returned, also for
\* an argument with punctuation at its ends, it returns that name unchanged.
C24_NormalizeNameIdempotent == normalizeName(nameOut) = nameOut

\* ----------------------------------------------------------------------- C25
\* C25: autoMatchResults links a result exactly when one and only one of its
\* candidates has a confidence of 90 or more, however many candidates of
\* lower confidence there are, and counts every other result as skipped.
C25_LinksIffOneHighCandidate ==
    \A m \in Matchers :
        (adec[m].result # 0) =>
            (adec[m].linked <=> Cardinality(HighConfidence(adec[m].matches)) = 1)

\* ----------------------------------------------------------------------- C26
\* C26: every candidate findMatchesForResult returns, of scorer score s below
\* the threshold, reports the confidence round((1 - s) * 100), an integer in
\* 0..100 that is 100 when s = 0 (scores in thousandths).
C26_ConfidenceFromScore ==
    \A m \in Matchers : \A c \in adec[m].matches :
        /\ c.fuse < AutoMatchThreshold
        /\ c.confidence = ((1000 - c.fuse) + 5) \div 10
        /\ c.confidence \in 0..100
        /\ (c.fuse = 0) => (c.confidence = 100)

\* ----------------------------------------------------------------------- C30
\* C30: autoMatchResults links only results whose athlete_id is null at the
\* moment of linking: the step of a run that links a result finds no link on
\* it, so it never overwrites one set after the run read its list.
C30_LinksOnlyUnlinked ==
    [][\A m \in Matchers :
          (aloc'[m].matched > aloc[m].matched)
              => athleteId[Head(aloc[m].unmatched)] = 0]_vars

\* ----------------------------------------------------------------------- C27
\* C27: once a job's status is completed it never changes again: no step of
\* a drainer run, also of one working from a list read before another run
\* completed the job, moves it back to running or failed.
C27_CompletedIsFinal ==
    [][\A j \in Jobs :
          jobs[j].status = "completed" => jobs'[j].status = "completed"]_vars

\* ----------------------------------------------------------------------- C28
\* C28: a job that a drainer run set to running leaves that state within the
\* same run, also when a call of the failure handling throws: a job whose
\* status is running is always the job some run is working on, so that no job
\* is left running with nobody to move it on (getJobsForRetry never selects a
\* running job again).
C28_RunningJobHasARun ==
    \A j \in Jobs :
        jobs[j].status = "running" => \E d \in Drainers : cur[d].id = j

\* ----------------------------------------------------------------------- C29
\* The probes of monitorEndpoint in progress.
ProbesInProgress == {p \in Probers : mpc[p] # "idle" /\ mloc[p].kind = "db"}

\* C29: whenever no probe of the endpoint is in progress, the current status
\* record carries the status token of the most recently appended history
\* record, also after a probe whose upsert of the current record failed
\* after its history insert.
C29_CurrentIsLastHistory ==
    (ProbesInProgress = {} /\ endpointHistory # <<>>) =>
        endpointCurrent.status = endpointHistory[Len(endpointHistory)]

====
